---------------------------- MODULE Spec2Model ----------------------------
(***************************************************************************)
(* Model of src/schedulean_streamlit.py: the XER parser                    *)
(* (parse_file_content / parse_xer_simplified), the metrics aggregation    *)
(* (analyze_project_data), the redundant-logic detector                    *)
(* (analyze_redundant_logic / has_alternate_path) and the per-file loop of *)
(* main.                                                                   *)
(*                                                                         *)
(* A data row (a Python dict of strings) is a function from column names   *)
(* to strings; a key that is absent from the dict is absent from DOMAIN.   *)
(***************************************************************************)
EXTENDS Integers, Sequences, FiniteSets, TLC

VARIABLES
    pc,                      \* position of the modelled control flow
    activities,              \* data['activities']
    relationships,           \* data['relationships']
    assignments,             \* data['assignments']
    resources,               \* data['resources']
    relationship_counts,     \* analyze_project_data: relationship histogram
    resource_counts,         \* analyze_project_data: assignments per class
    costs,                   \* analyze_project_data: cost per class
    graph,                   \* analyze_redundant_logic: adjacency lists
    idx,                     \* analyze_redundant_logic: position of the second loop
    total_checked,           \* analyze_redundant_logic: total_checked
    redundant_relationships, \* analyze_redundant_logic: flagged edges
    search,                  \* has_alternate_path: queue, visited, outcome
    report,                  \* value returned by analyze_redundant_logic
    content,                 \* parse_xer_simplified: the lines read so far
    current,                 \* parse_xer_simplified: current
    cols,                    \* parse_xer_simplified: cols
    tables,                  \* parse_xer_simplified: the six row lists
    data,                    \* value returned by parse_file_content
    uploaded_files,          \* main: the uploaded files
    file_idx,                \* main: position of the loop over the files
    all_results,             \* main: all_results
    errors                   \* main: the st.error reports, one per failed file

dataVars == <<activities, relationships, assignments, resources>>
metricVars == <<relationship_counts, resource_counts, costs>>
logicVars == <<graph, idx, total_checked, redundant_relationships, search, report>>
parseVars == <<content, current, cols, tables, data>>
mainVars == <<uploaded_files, file_idx, all_results, errors>>
vars == <<pc, dataVars, metricVars, logicVars, parseVars, mainVars>>

---------------------------------------------------------------------------
(* Bounds of the model *)

NumNodes == 3       \* activity ids used by the relationship lists
MaxRels == 3        \* relationship rows of one file
RowsRels == 2       \* relationship rows of the family with missing fields
MaxResources == 2   \* resource rows of one file
MaxAssignments == 2 \* assignment rows of one file
MaxActivities == 2  \* activity rows of one file
MaxFiles == 3       \* files uploaded together
MaxLines == 4       \* lines of one file given to the parser
WideNodes == 4      \* activity ids of the wide relationship family
WideRels == 5       \* relationship rows of the wide relationship family

IdNames == <<"A", "B", "C", "D", "E", "F">>

---------------------------------------------------------------------------
(* Program constants *)

max_depth == 10
VisitedCap == 1000

XER_REL_MAP ==
    [PR_FS |-> "Finish-to-Start (FS)", PR_FF |-> "Finish-to-Finish (FF)",
     PR_SS |-> "Start-to-Start (SS)", PR_SF |-> "Start-to-Finish (SF)"]

\* Python's None where the code holds a dict or None
None == [is_none |-> TRUE]

\* Python's None where the code holds a string or None
NoName == "<None>"

TableNames == {"TASK", "TASKPRED", "TASKRSRC", "RSRC", "ROLES", "ROLERATE"}

\* tasks, preds, assigns, resources, roles, role_rates = [], [], [], [], [], []
NoTables == [t \in TableNames |-> <<>>]

---------------------------------------------------------------------------
(* Helpers *)

\* dict.get(key, default)
Get(row, key, default) == IF key \in DOMAIN row THEN row[key] ELSE default

\* The decimal strings the model feeds to float().
NumeralValue ==
    [n \in {"0", "5", "10", "25", "50", "100"} |->
        CASE n = "0" -> 0 [] n = "5" -> 5 [] n = "10" -> 10
          [] n = "25" -> 25 [] n = "50" -> 50 [] n = "100" -> 100]

\* safe_float: None, '' and unparsable text give the default 0.0
safe_float(value) ==
    IF value \in DOMAIN NumeralValue THEN NumeralValue[value] ELSE 0

\* safe_float(row.get(key, 0))
GetFloat(row, key) == IF key \in DOMAIN row THEN safe_float(row[key]) ELSE 0

SeqMap(f(_), s) == [i \in 1..Len(s) |-> f(s[i])]

Range(s) == {s[i] : i \in 1..Len(s)}

RECURSIVE SumSeq(_)
SumSeq(s) == IF s = <<>> THEN 0 ELSE Head(s) + SumSeq(Tail(s))

\* Python truthiness of the two endpoint ids: both non-empty
HasEndpoints(rel) ==
    /\ Get(rel, "pred_task_id", "") # ""
    /\ Get(rel, "succ_task_id", "") # ""

---------------------------------------------------------------------------
(* has_alternate_path *)

\* a popleft that leaves the entry in the queue
PeekLeft(queue) == queue

\* deque.popleft(): the queue that remains
PopLeft(queue) == Tail(queue)

\* the (neighbor, cumulative_lag + lag, path + [current]) entries appended
\* for the neighbours of the dequeued entry that are not in its path
Explore(g, entry) ==
    LET out == Get(g, entry.node, <<>>)
        NotInPath(edge) == edge.succ \notin Range(entry.path)
        Entry(edge) == [node |-> edge.succ, lag |-> entry.lag + edge.lag,
                        path |-> Append(entry.path, entry.node)]
    IN  SeqMap(Entry, SelectSeq(out, NotInPath))

\* The entries dequeued by one search are counted up to ExploredTop, one more
\* than the limit of the while condition: the count is an observation of the
\* run, the code keeps no such counter, and a count of ExploredTop stands for
\* every count above the limit.
ExploredTop == VisitedCap + 1

\* state of the search at the first test of the while condition
SearchStart(start) ==
    [queue |-> <<[node |-> start, lag |-> 0, path |-> <<>>]>>,
     visited |-> {}, found |-> FALSE, explored |-> 0]

\* the while condition; a search that returned True has left the loop
SearchRunning(s) ==
    /\ ~s.found
    /\ s.queue # <<>>
    /\ Cardinality(s.visited) < VisitedCap

\* one iteration of the while loop
SearchStep(g, end, s) ==
    LET entry == Head(s.queue)
        rest == PopLeft(s.queue)
        popped == [s EXCEPT !.queue = rest,
                            !.explored = IF @ < ExploredTop THEN @ + 1 ELSE @]
    IN  IF Len(entry.path) > max_depth THEN popped
        ELSE IF entry.node = end /\ Len(entry.path) > 1
        THEN [popped EXCEPT !.found = TRUE]
        ELSE IF entry.node \in s.visited THEN popped
        ELSE [popped EXCEPT !.visited = @ \cup {entry.node},
                            !.queue = rest \o Explore(g, entry)]

RECURSIVE RunSearch(_, _, _)
RunSearch(g, end, s) ==
    IF SearchRunning(s) THEN RunSearch(g, end, SearchStep(g, end, s)) ELSE s

has_alternate_path(g, start, end) == RunSearch(g, end, SearchStart(start)).found

---------------------------------------------------------------------------
(* analyze_redundant_logic *)

\* first loop: graph[pred_id].append((succ_id, rel_type, lag)) for the rows
\* that have both endpoint ids
BuildGraph(rels) ==
    LET valid == SelectSeq(rels, HasEndpoints)
        Edge(rel) == [succ |-> rel["succ_task_id"],
                      type |-> Get(rel, "pred_type", "PR_FS"),
                      lag |-> GetFloat(rel, "lag_hr_cnt")]
    IN  [p \in {valid[i]["pred_task_id"] : i \in 1..Len(valid)} |->
            LET From(rel) == rel["pred_task_id"] = p
            IN  SeqMap(Edge, SelectSeq(valid, From))]

\* next(act.get('task_code', id) for act in activities
\*      if act.get('task_id', '') == id, default id)
ActivityCode(acts, id) ==
    LET Match(act) == Get(act, "task_id", "") = id
        hits == SelectSeq(acts, Match)
    IN  IF hits = <<>> THEN id ELSE Get(Head(hits), "task_code", id)

\* the dict appended to redundant_relationships for a flagged row
RedundantEntry(acts, rel) ==
    [predecessor_id |-> rel["pred_task_id"],
     successor_id |-> rel["succ_task_id"],
     predecessor_code |-> ActivityCode(acts, rel["pred_task_id"]),
     successor_code |-> ActivityCode(acts, rel["succ_task_id"]),
     relationship_type |-> Get(rel, "pred_type", "PR_FS"),
     lag_hours |-> GetFloat(rel, "lag_hr_cnt")]

\* the dict returned after the second loop
Report(flagged, checked) ==
    [redundant_relationships |-> flagged,
     total_relationships_checked |-> checked,
     redundant_count |-> Len(flagged)]

NoSearch == [queue |-> <<>>, visited |-> {}, found |-> FALSE, explored |-> 0]
NoReport == [redundant_relationships |-> <<>>,
             total_relationships_checked |-> -1, redundant_count |-> -1]


---------------------------------------------------------------------------
(* analyze_project_data: histograms, assignment counts and costs *)

RelTypeNames == {XER_REL_MAP[t] : t \in DOMAIN XER_REL_MAP}

\* relationship_counts after the loop over the relationship rows
CountRelationshipTypes(rels) ==
    [name \in RelTypeNames |->
        Cardinality({i \in 1..Len(rels) :
            LET t == Get(rels[i], "pred_type", "PR_FS")
            IN  t \in DOMAIN XER_REL_MAP /\ XER_REL_MAP[t] = name})]

EmptyRow == [k \in {} |-> ""]

\* a lookup that keeps the first row of each key
resource_lookup_first(res) ==
    [id \in {Get(res[i], "rsrc_id", "") : i \in 1..Len(res)} |->
        LET Same(r) == Get(r, "rsrc_id", "") = id
        IN  Head(SelectSeq(res, Same))]

\* resource_lookup = {r.get('rsrc_id', ''): r for r in resources}:
\* a later row replaces an earlier row with the same key
resource_lookup(res) ==
    [id \in {Get(res[i], "rsrc_id", "") : i \in 1..Len(res)} |->
        LET Same(r) == Get(r, "rsrc_id", "") = id
            hits == SelectSeq(res, Same)
        IN  hits[Len(hits)]]

\* resource_lookup.get(a.get('rsrc_id', ''), {}).get('rsrc_type', default)
RsrcType(lookup, a, default) ==
    Get(Get(lookup, Get(a, "rsrc_id", ""), EmptyRow), "rsrc_type", default)

ClassNames == {"Labor", "Material", "Non-Labor"}

\* the chain without its elif branch
CountClassNoMaterial(rsrc_type) ==
    IF rsrc_type = "RT_Labor" THEN "Labor" ELSE "Non-Labor"

\* the if / elif / else that picks the counter to increment
CountClass(rsrc_type) ==
    IF rsrc_type = "RT_Labor" THEN "Labor"
    ELSE IF rsrc_type = "RT_Mat" THEN "Material"
    ELSE "Non-Labor"

\* resource_counts after the loop over the assignments (a class that was
\* never incremented is absent from the defaultdict; it reads as 0 here)
CountAssignments(res, asg) ==
    LET lookup == resource_lookup(res)
    IN  [c \in ClassNames |->
            Cardinality({i \in 1..Len(asg) :
                CountClass(RsrcType(lookup, asg[i], "")) = c})]

\* sum(safe_float(a.get('target_cost', 0)) for a in assignments if Keep(a))
CostWhere(asg, Keep(_)) ==
    LET Cost(a) == GetFloat(a, "target_cost")
    IN  SumSeq(SeqMap(Cost, SelectSeq(asg, Keep)))

\* the three generator sums; the looked-up class defaults to None here
CostSums(res, asg) ==
    LET lookup == resource_lookup(res)
        IsLabor(a) == RsrcType(lookup, a, "None") = "RT_Labor"
        IsOther(a) == RsrcType(lookup, a, "None") \notin {"RT_Labor", "RT_Mat"}
        IsMat(a) == RsrcType(lookup, a, "None") = "RT_Mat"
    IN  [labor |-> CostWhere(asg, IsLabor),
         nonlabor |-> CostWhere(asg, IsOther),
         material |-> CostWhere(asg, IsMat)]

---------------------------------------------------------------------------
(* Actions of analyze_project_data *)

\* lines 229-235
CountTypes ==
    /\ pc = "counts"
    /\ relationship_counts' = CountRelationshipTypes(relationships)
    /\ pc' = "assign"
    /\ UNCHANGED <<dataVars, resource_counts, costs, logicVars>>
    /\ UNCHANGED <<parseVars, mainVars>>

\* lines 237-262
AnalyzeAssignments ==
    /\ pc = "assign"
    /\ resource_counts' = CountAssignments(resources, assignments)
    /\ costs' = CostSums(resources, assignments)
    /\ pc' = "graph"
    /\ UNCHANGED <<dataVars, relationship_counts, logicVars>>
    /\ UNCHANGED <<parseVars, mainVars>>

\* analyze_redundant_logic, first loop and the initialisation of the second
BuildAdjacency ==
    /\ pc = "graph"
    /\ graph' = BuildGraph(relationships)
    /\ redundant_relationships' = <<>>
    /\ total_checked' = 0
    /\ idx' = 1
    /\ pc' = "loop"
    /\ UNCHANGED <<dataVars, metricVars, search, report>>
    /\ UNCHANGED <<parseVars, mainVars>>

\* second loop, a row without both endpoint ids: counted, not searched
SkipRelationship ==
    /\ pc = "loop"
    /\ idx <= Len(relationships)
    /\ ~HasEndpoints(relationships[idx])
    /\ total_checked' = total_checked + 1
    /\ idx' = idx + 1
    /\ UNCHANGED <<pc, dataVars, metricVars, graph, redundant_relationships,
                   search, report>>
    /\ UNCHANGED <<parseVars, mainVars>>

\* second loop, a row with both endpoint ids: has_alternate_path is entered
StartSearch ==
    /\ pc = "loop"
    /\ idx <= Len(relationships)
    /\ HasEndpoints(relationships[idx])
    /\ total_checked' = total_checked + 1
    /\ search' = SearchStart(relationships[idx]["pred_task_id"])
    /\ pc' = "search"
    /\ UNCHANGED <<dataVars, metricVars, graph, idx, redundant_relationships,
                   report>>
    /\ UNCHANGED <<parseVars, mainVars>>

\* has_alternate_path, one iteration of the while loop
SearchIteration ==
    /\ pc = "search"
    /\ SearchRunning(search)
    /\ search' = SearchStep(graph, relationships[idx]["succ_task_id"], search)
    /\ UNCHANGED <<pc, dataVars, metricVars, graph, idx, total_checked,
                   redundant_relationships, report>>
    /\ UNCHANGED <<parseVars, mainVars>>

\* has_alternate_path returns; a True result appends the flagged row
FinishSearch ==
    /\ pc = "search"
    /\ ~SearchRunning(search)
    /\ redundant_relationships' =
          IF search.found
          THEN Append(redundant_relationships,
                      RedundantEntry(activities, relationships[idx]))
          ELSE redundant_relationships
    /\ idx' = idx + 1
    /\ pc' = "loop"
    /\ UNCHANGED <<dataVars, metricVars, graph, total_checked, search, report>>
    /\ UNCHANGED <<parseVars, mainVars>>

\* the second loop is over: the report is returned
ReturnReport ==
    /\ pc = "loop"
    /\ idx > Len(relationships)
    /\ report' = Report(redundant_relationships, total_checked)
    /\ pc' = "done"
    /\ UNCHANGED <<dataVars, metricVars, graph, idx, total_checked,
                   redundant_relationships, search>>
    /\ UNCHANGED <<parseVars, mainVars>>

NextAnalyze ==
    \/ CountTypes
    \/ AnalyzeAssignments
    \/ BuildAdjacency
    \/ SkipRelationship
    \/ StartSearch
    \/ SearchIteration
    \/ FinishSearch
    \/ ReturnReport

---------------------------------------------------------------------------
(* Input families *)

NoField == "<absent>"

\* a dict with the given keys, leaving out the keys given as NoField
Row(fields) == [k \in {f \in DOMAIN fields : fields[f] # NoField} |-> fields[k]]

Ids(n) == {IdNames[i] : i \in 1..n}

SeqsUpTo(S, n) == UNION {[1..k -> S] : k \in 0..n}

InitAnalyze(acts, rels, asg, res) ==
    /\ pc = "counts"
    /\ activities = acts
    /\ relationships = rels
    /\ assignments = asg
    /\ resources = res
    /\ relationship_counts = [name \in RelTypeNames |-> 0]
    /\ resource_counts = [c \in ClassNames |-> 0]
    /\ costs = [labor |-> 0, nonlabor |-> 0, material |-> 0]
    /\ graph = EmptyRow
    /\ idx = 0
    /\ total_checked = 0
    /\ redundant_relationships = <<>>
    /\ search = NoSearch
    /\ report = NoReport
    /\ content = <<>>
    /\ current = NoName
    /\ cols = <<>>
    /\ tables = NoTables
    /\ data = None
    /\ uploaded_files = <<>>
    /\ file_idx = 0
    /\ all_results = <<>>
    /\ errors = <<>>

\* a relationship row; an endpoint given as "" is an empty id
RelRow(p, s) == Row([pred_task_id |-> p, succ_task_id |-> s])

\* a row whose predecessor id is empty
DanglingRow == RelRow("", IdNames[1])

\* relationship rows between NumNodes activities, self-loops and duplicate
\* rows included, and one row without a predecessor id
LogicRows ==
    {RelRow(p, s) : p \in Ids(NumNodes), s \in Ids(NumNodes)} \cup {DanglingRow}

Max2(a, b) == IF a >= b THEN a ELSE b
Min2(a, b) == IF a <= b THEN a ELSE b

IdIndex(id) == CHOOSE i \in 1..Len(IdNames) : IdNames[i] = id

\* the highest index of an id among the first k rows (0 when there is none)
RECURSIVE HighestId(_, _)
HighestId(rels, k) ==
    IF k = 0 THEN 0
    ELSE LET p == rels[k]["pred_task_id"]
             q == rels[k]["succ_task_id"]
         IN  Max2(HighestId(rels, k - 1),
                  Max2(IF p = "" THEN 0 ELSE IdIndex(p), IdIndex(q)))

\* The ids of the list appear in the order of IdNames: the first id used is
\* "A", the next new id is "B", and so on. The code compares ids only for
\* equality and emptiness, so every list of rows is one of these up to a
\* renaming of its ids; the relationship families draw these lists only.
IdsInOrder(rels) ==
    \A k \in 1..Len(rels) :
        LET p == rels[k]["pred_task_id"]
            q == rels[k]["succ_task_id"]
            m == HighestId(rels, k - 1)
            pi == IF p = "" THEN 0 ELSE IdIndex(p)
        IN  pi <= m + 1 /\ IdIndex(q) <= Max2(m, pi) + 1

\* the lists of at most MaxRels rows between NumNodes activities
InitLogic ==
    \E k \in 0..MaxRels :
        \E rels \in [1..k -> LogicRows] :
            /\ IdsInOrder(rels)
            /\ InitAnalyze(<<>>, rels, <<>>, <<>>)

SpecLogic == InitLogic /\ [][NextAnalyze]_vars

\* the second loop and the while loop are sequential code: they keep running
FairLogic == SpecLogic /\ WF_vars(NextAnalyze)


WideRows ==
    {RelRow(p, s) : p \in Ids(WideNodes), s \in Ids(WideNodes)} \cup {DanglingRow}

InitWide ==
    \E k \in 0..WideRels :
        \E rels \in [1..k -> WideRows] :
            /\ IdsInOrder(rels)
            /\ InitAnalyze(<<>>, rels, <<>>, <<>>)

SpecWide == InitWide /\ [][NextAnalyze]_vars

\* relationship rows whose endpoint ids and type tag may be absent or empty
SparseRows ==
    {Row([pred_task_id |-> p, succ_task_id |-> s, pred_type |-> t]) :
        p \in {NoField, "", "A"}, s \in {NoField, "", "B"},
        t \in {NoField, "PR_FS", "PR_SS", "PR_XX"}}

InitRows ==
    \E rels \in SeqsUpTo(SparseRows, RowsRels) :
        InitAnalyze(<<>>, rels, <<>>, <<>>)

SpecRows == InitRows /\ [][NextAnalyze]_vars

---------------------------------------------------------------------------
(* Redundancy detection: claims C1 - C4 *)

\* the (predecessor, successor) pairs of the rows that have both ids
EdgeSet(rels) ==
    {<<rels[i]["pred_task_id"], rels[i]["succ_task_id"]>> :
        i \in {j \in 1..Len(rels) : HasEndpoints(rels[j])}}

\* some path from cur to target uses edges of E, enters no node of seen,
\* repeats no node, and has between 2 and max_depth edges counting the n
\* edges already walked
RECURSIVE PathFrom(_, _, _, _, _)
PathFrom(E, cur, target, seen, n) ==
    \E e \in E :
        /\ e[1] = cur
        /\ e[2] \notin seen
        /\ n + 1 <= max_depth
        /\ \/ e[2] = target /\ n + 1 >= 2
           \/ e[2] # target /\ PathFrom(E, e[2], target, seen \cup {e[2]}, n + 1)

AlternatePathExists(rels, p, s) == PathFrom(EdgeSet(rels), p, s, {p}, 0)

\* the report lists a row from p to s
Flagged(p, s) ==
    \E j \in 1..Len(report.redundant_relationships) :
        /\ report.redundant_relationships[j].predecessor_id = p
        /\ report.redundant_relationships[j].successor_id = s

\* C1: every relationship with distinct non-empty endpoint ids for which the
\* graph has a path of 2 to 10 edges from its predecessor to its successor
\* that visits no node twice is reported as redundant.
C1_Completeness ==
    pc = "done" =>
        \A i \in 1..Len(relationships) :
            LET p == Get(relationships[i], "pred_task_id", "")
                s == Get(relationships[i], "succ_task_id", "")
            IN  (HasEndpoints(relationships[i]) /\ p # s
                   /\ AlternatePathExists(relationships, p, s))
                => Flagged(p, s)

\* C2: a relationship is reported as redundant only if the graph has a path
\* of 2 to 10 edges from its predecessor to its successor that visits no
\* node twice; the direct edge followed by a self-loop on the successor, or
\* repeated as a duplicate row, is not such a path.
C2_Soundness ==
    pc = "done" =>
        \A j \in 1..Len(report.redundant_relationships) :
            AlternatePathExists(relationships,
                report.redundant_relationships[j].predecessor_id,
                report.redundant_relationships[j].successor_id)

\* the rows whose type tag is one of the four known tags, whatever their ids
KnownTypeRows ==
    {i \in 1..Len(relationships) :
        Get(relationships[i], "pred_type", "PR_FS") \in DOMAIN XER_REL_MAP}

\* C3: a relationship row without a predecessor id or without a successor id
\* is not in the graph and is not counted in total_relationships_checked,
\* which therefore equals the number of rows having both ids; the row is
\* still counted in the relationship-type histogram when its tag is known.
C3_EndpointlessRows ==
    pc = "done" =>
        /\ "" \notin DOMAIN graph
        /\ \A p \in DOMAIN graph : \A k \in 1..Len(graph[p]) : graph[p][k].succ # ""
        /\ \A p \in DOMAIN graph :
              Len(graph[p]) =
                 Cardinality({i \in 1..Len(relationships) :
                     /\ HasEndpoints(relationships[i])
                     /\ relationships[i]["pred_task_id"] = p})
        /\ Cardinality(KnownTypeRows) =
              SumSeq([i \in 1..4 |->
                  relationship_counts[XER_REL_MAP[
                      <<"PR_FS", "PR_FF", "PR_SS", "PR_SF">>[i]]]])
        /\ report.total_relationships_checked =
              Cardinality({i \in 1..Len(relationships) :
                              HasEndpoints(relationships[i])})

\* the part of C3 about the graph and the histogram, without the total
EndpointlessRowsKept ==
    pc = "done" =>
        /\ "" \notin DOMAIN graph
        /\ \A p \in DOMAIN graph : \A k \in 1..Len(graph[p]) : graph[p][k].succ # ""
        /\ \A p \in DOMAIN graph :
              Len(graph[p]) =
                 Cardinality({i \in 1..Len(relationships) :
                     /\ HasEndpoints(relationships[i])
                     /\ relationships[i]["pred_task_id"] = p})
        /\ Cardinality(KnownTypeRows) =
              SumSeq([i \in 1..4 |->
                  relationship_counts[XER_REL_MAP[
                      <<"PR_FS", "PR_FF", "PR_SS", "PR_SF">>[i]]]])
        /\ report.total_relationships_checked = Len(relationships)

\* C4: every per-row search stops, and the analysis returns its report after
\* the second loop has gone through every relationship row once.
C4_Termination ==
    /\ (pc = "search") ~> (pc = "loop")
    /\ <>(pc = "done" /\ idx = Len(relationships) + 1
            /\ total_checked = Len(relationships))

\* an analysis has returned for a list with a self-loop, a duplicate row and
\* a search that ended on a found path
C4_Witness ==
    /\ pc = "done"
    /\ report.redundant_count > 0
    /\ \E i \in 1..Len(relationships) :
          /\ HasEndpoints(relationships[i])
          /\ relationships[i]["pred_task_id"] = relationships[i]["succ_task_id"]
    /\ \E i, j \in 1..Len(relationships) :
          i # j /\ relationships[i] = relationships[j]


---------------------------------------------------------------------------
(* parse_xer_simplified and parse_file_content *)

\* A line is the sequence of its tab-delimited fields. raw.strip() removes
\* the white space at both ends of the line, tabs included: the empty
\* fields at both ends go, and a line of empty fields only becomes ''.
RECURSIVE Strip(_)
Strip(raw) ==
    IF raw = <<>> THEN <<>>
    ELSE IF Head(raw) = "" THEN Strip(Tail(raw))
    ELSE IF raw[Len(raw)] = "" THEN Strip(SubSeq(raw, 1, Len(raw) - 1))
    ELSE raw

\* line.startswith(marker); the first fields of the modelled lines are the
\* three markers themselves or a word without a marker
StartsWith(line, marker) == line[1] = marker

\* the %T branch without the reset of cols
DeclareTableKeepCols(st, line) == [st EXCEPT !.current = line[2]]

\* the %T branch: current = line.split('\t')[1]; cols = []
DeclareTable(st, line) == [st EXCEPT !.current = line[2], !.cols = <<>>]

\* the %T branch raises IndexError when the line has no second field
RaisesIndexError(raw) ==
    LET line == Strip(raw)
    IN  line # <<>> /\ StartsWith(line, "%T") /\ Len(line) < 2

\* dict(zip(cols, values)): no padding of the missing values
MakeRowZip(columns, values) ==
    [c \in {columns[i] : i \in 1..Min2(Len(columns), Len(values))} |->
        LET last == CHOOSE i \in 1..Min2(Len(columns), Len(values)) :
                      /\ columns[i] = c
                      /\ \A j \in (i + 1)..Min2(Len(columns), Len(values)) :
                            columns[j] # c
        IN  values[last]]

\* row = {cols[i]: values[i] if i < len(values) else '' for i in
\* range(len(cols))}: a later column replaces an earlier one of the same name
MakeRow(columns, values) ==
    [c \in Range(columns) |->
        LET last == CHOOSE i \in 1..Len(columns) :
                      /\ columns[i] = c
                      /\ \A j \in (i + 1)..Len(columns) : columns[j] # c
        IN  IF last <= Len(values) THEN values[last] ELSE ""]

\* the if / elif chain that appends the row to the list of its table
StoreRow(tbls, name, row) ==
    IF name \in TableNames THEN [tbls EXCEPT ![name] = Append(@, row)] ELSE tbls

\* the body of the loop over the lines, for a line that does not raise;
\* st is the record of current, cols and the row lists
LineStep(st, raw) ==
    LET line == Strip(raw)
    IN  IF line = <<>> THEN st
        ELSE IF StartsWith(line, "%T") THEN DeclareTable(st, line)
        ELSE IF StartsWith(line, "%F") THEN [st EXCEPT !.cols = Tail(line)]
        ELSE IF /\ StartsWith(line, "%R")
                /\ st.current \notin {NoName, ""}
                /\ st.cols # <<>>
        THEN [st EXCEPT !.tables =
                 StoreRow(@, st.current, MakeRow(st.cols, Tail(line)))]
        ELSE st

ParserStart == [current |-> NoName, cols |-> <<>>, tables |-> NoTables]

\* the dict returned by parse_xer_simplified
ParsedData(tbls) ==
    [activities |-> tbls["TASK"], relationships |-> tbls["TASKPRED"],
     assignments |-> tbls["TASKRSRC"], resources |-> tbls["RSRC"],
     roles |-> tbls["ROLES"], role_rates |-> tbls["ROLERATE"],
     filename |-> "XER File"]

\* parse_xer_simplified(content): the dict, or None when a line raises and
\* parse_file_content catches the exception
RECURSIVE ParseFrom(_, _)
ParseFrom(st, lines) ==
    IF lines = <<>> THEN ParsedData(st.tables)
    ELSE IF RaisesIndexError(Head(lines)) THEN None
    ELSE ParseFrom(LineStep(st, Head(lines)), Tail(lines))

parse_xer_simplified(lines) == ParseFrom(ParserStart, lines)

\* the lines the parser is given
TableLines ==
    {<<"%T">>, <<"%T", "TASK">>, <<"%T", "TASKPRED">>, <<"%T", "OTHER">>,
     <<"%T", "", "TASK">>}
ColumnLines == {<<"%F">>, <<"%F", "a">>, <<"%F", "a", "b">>, <<"%F", "a", "a">>}
RowLines ==
    {<<"%R">>, <<"%R", "x">>, <<"%R", "x", "y">>, <<"%R", "x", "y", "z">>,
     <<"%R", "x", "">>}
OtherLines == {<<"">>, <<"ERMHDR", "19.12">>}
LineSet == TableLines \cup ColumnLines \cup RowLines \cup OtherLines

\* one iteration of the loop over the lines
ReadLine ==
    /\ pc = "parse"
    /\ Len(content) < MaxLines
    /\ \E raw \in LineSet :
          /\ ~RaisesIndexError(raw)
          /\ content' = Append(content, raw)
          /\ LET st == LineStep([current |-> current, cols |-> cols,
                                 tables |-> tables], raw)
             IN  /\ current' = st.current
                 /\ cols' = st.cols
                 /\ tables' = st.tables
    /\ UNCHANGED <<pc, data, dataVars, metricVars, logicVars, mainVars>>

\* a %T line without a table name: line.split('\t')[1] raises IndexError,
\* parse_file_content reports it and returns None
RaiseOnLine ==
    /\ pc = "parse"
    /\ Len(content) < MaxLines
    /\ \E raw \in LineSet :
          /\ RaisesIndexError(raw)
          /\ content' = Append(content, raw)
    /\ data' = None
    /\ errors' = Append(errors, "Error parsing")
    /\ pc' = "parsed"
    /\ UNCHANGED <<current, cols, tables, dataVars, metricVars, logicVars,
                   uploaded_files, file_idx, all_results>>

\* the lines are exhausted: the dict of the row lists is returned
ReturnTables ==
    /\ pc = "parse"
    /\ data' = ParsedData(tables)
    /\ pc' = "parsed"
    /\ UNCHANGED <<content, current, cols, tables, errors, dataVars,
                   metricVars, logicVars, uploaded_files, file_idx,
                   all_results>>

NextParse == ReadLine \/ RaiseOnLine \/ ReturnTables

\* parse_file_content is called with the name of a .xer file
InitParse ==
    /\ pc = "parse"
    /\ activities = <<>>
    /\ relationships = <<>>
    /\ assignments = <<>>
    /\ resources = <<>>
    /\ relationship_counts = [name \in RelTypeNames |-> 0]
    /\ resource_counts = [c \in ClassNames |-> 0]
    /\ costs = [labor |-> 0, nonlabor |-> 0, material |-> 0]
    /\ graph = EmptyRow
    /\ idx = 0
    /\ total_checked = 0
    /\ redundant_relationships = <<>>
    /\ search = NoSearch
    /\ report = NoReport
    /\ content = <<>>
    /\ current = ParserStart.current
    /\ cols = ParserStart.cols
    /\ tables = ParserStart.tables
    /\ data = None
    /\ uploaded_files = <<>>
    /\ file_idx = 0
    /\ all_results = <<>>
    /\ errors = <<>>

SpecParse == InitParse /\ [][NextParse]_vars


---------------------------------------------------------------------------
(* Parser: claims C5, C6, C10 *)

\* the kind of a line as the file shows it: its first non-empty field
FirstField(raw) == IF Strip(raw) = <<>> THEN "" ELSE Strip(raw)[1]

\* the position in h of the most recent table declaration, 0 if none
LastTableLine(h) ==
    IF \E i \in 1..Len(h) : FirstField(h[i]) = "%T"
    THEN CHOOSE i \in 1..Len(h) :
            /\ FirstField(h[i]) = "%T"
            /\ \A j \in (i + 1)..Len(h) : FirstField(h[j]) # "%T"
    ELSE 0

\* the positions in h of the column declarations after the most recent
\* table declaration
ColumnLinesSince(h) ==
    {i \in (LastTableLine(h) + 1)..Len(h) : FirstField(h[i]) = "%F"}

\* the column names of the most recent column declaration of the block
DeclaredColumns(h) ==
    IF ColumnLinesSince(h) = {} THEN <<>>
    ELSE LET f == CHOOSE i \in ColumnLinesSince(h) :
                     \A j \in ColumnLinesSince(h) : j <= i
         IN  Tail(Strip(h[f]))

\* the table name of the most recent table declaration
DeclaredTable(h) == Strip(h[LastTableLine(h)])[2]

\* C5: with a .xer file name, parse_file_content returns the record tables
\* for every sequence of lines, never None.
C5_Lenient == pc = "parsed" => data # None

\* the step appends a row to the list of table t
Stores(t) == tables'[t] # tables[t]

StoredRow(t) == tables'[t][Len(tables'[t])]

\* the values of the row line read by the step
LineValues == Tail(content'[Len(content')])

\* C6 as stated: a stored row has as many fields as the declared column
\* list; the i-th declared column maps to the i-th value of the row line and
\* to "" beyond the last value.
C6_RowShape ==
    [][\A t \in TableNames : Stores(t) =>
          LET declared == DeclaredColumns(content)
          IN  /\ Cardinality(DOMAIN StoredRow(t)) = Len(declared)
              /\ \A i \in 1..Len(declared) :
                    StoredRow(t)[declared[i]] =
                       IF i <= Len(LineValues) THEN LineValues[i] ELSE ""]_vars

\* C6 amended: a stored row has one field per distinct declared column name;
\* a name maps to the value at the position of its last declaration, and to
\* "" when that position is beyond the last value; values beyond the last
\* declared column are in no field. When the declared names are distinct
\* the row has as many fields as declared columns and the i-th column maps
\* to the i-th value.
C6_RowShapeByName ==
    [][\A t \in TableNames : Stores(t) =>
          LET declared == DeclaredColumns(content)
              LastOf(c) == CHOOSE i \in 1..Len(declared) :
                              /\ declared[i] = c
                              /\ \A j \in (i + 1)..Len(declared) : declared[j] # c
              Distinct == \A i, j \in 1..Len(declared) :
                              declared[i] = declared[j] => i = j
          IN  /\ DOMAIN StoredRow(t) = Range(declared)
              /\ \A c \in Range(declared) :
                    StoredRow(t)[c] =
                       IF LastOf(c) <= Len(LineValues)
                       THEN LineValues[LastOf(c)] ELSE ""
              /\ Distinct =>
                    /\ Cardinality(DOMAIN StoredRow(t)) = Len(declared)
                    /\ \A i \in 1..Len(declared) :
                          StoredRow(t)[declared[i]] =
                             IF i <= Len(LineValues) THEN LineValues[i] ELSE ""]_vars

\* a block of two columns has stored a row line with one value and a row
\* line with three values
C6_Witness ==
    /\ pc = "parse"
    /\ Len(content) = 4
    /\ DeclaredColumns(content) = <<"a", "b">>
    /\ Len(Tail(content[3])) = 1
    /\ Len(Tail(content[4])) = 3
    /\ \E t \in TableNames : Len(tables[t]) = 2

\* C10: a row line is stored only when a table declaration has been read and
\* a non-empty column declaration has been read after the most recent table
\* declaration; a table declaration empties the column list, so a row line
\* with no column declaration since the most recent table declaration is
\* dropped; a stored row goes to the table named by the most recent table
\* declaration, and under an unrecognised table name nothing is stored.
C10_StateMachine ==
    [][(pc = "parse" /\ pc' = "parse") =>
          /\ \A t \in TableNames : Stores(t) =>
                /\ FirstField(content'[Len(content')]) = "%R"
                /\ LastTableLine(content) > 0
                /\ DeclaredTable(content) = t
                /\ \E f \in ColumnLinesSince(content) : Len(Strip(content[f])) > 1
                /\ tables'[t] = Append(tables[t], StoredRow(t))
                /\ \A u \in TableNames \ {t} : ~Stores(u)
          /\ FirstField(content'[Len(content')]) = "%T" => cols' = <<>>
          /\ ColumnLinesSince(content) = {} => tables' = tables
          /\ (LastTableLine(content) > 0 /\ DeclaredTable(content) \notin TableNames)
                => tables' = tables
          /\ cols' = DeclaredColumns(content')]_vars

\* a column list was declared for one table, a second table was declared,
\* and the row line that followed was dropped
C10_Witness ==
    /\ pc = "parse"
    /\ Len(content) = 4
    /\ FirstField(content[1]) = "%T"
    /\ FirstField(content[2]) = "%F" /\ Len(content[2]) > 1
    /\ FirstField(content[3]) = "%T" /\ Strip(content[3])[2] \in TableNames
    /\ FirstField(content[4]) = "%R"
    /\ tables = NoTables


---------------------------------------------------------------------------
(* Input families of the assignment analysis *)

ResourceRows ==
    {Row([rsrc_id |-> id, rsrc_type |-> t]) :
        id \in {"R1", "R2"}, t \in {"RT_Labor", "RT_Mat", "RT_Equip", NoField}}

AssignmentRows ==
    {Row([rsrc_id |-> id, target_cost |-> c]) :
        id \in {"R1", "R2"}, c \in {"10", "25", "n/a"}}

ActivityRows ==
    {Row([task_id |-> id, task_code |-> c]) :
        id \in {"A", "C"}, c \in {"A100", "C300", NoField}}

\* resources and assignments of every shape, beside one relationship with
\* both endpoint ids and one without
InitCost ==
    \E res \in SeqsUpTo(ResourceRows, MaxResources) :
        \E asg \in SeqsUpTo(AssignmentRows, MaxAssignments) :
            InitAnalyze(<<>>, <<RelRow("A", "B"), DanglingRow>>, asg, res)

SpecCost == InitCost /\ [][NextAnalyze]_vars

\* the chain A -> B -> C with the direct edge A -> C, which the search flags
ChainRows == <<RelRow("A", "B"), RelRow("B", "C"), RelRow("A", "C"), DanglingRow>>

\* activities and resources of every shape, duplicate ids included, with
\* one assignment per resource id and the chain
InitDuplicates ==
    \E acts \in SeqsUpTo(ActivityRows, MaxActivities) :
        \E res \in SeqsUpTo(ResourceRows, MaxResources) :
            InitAnalyze(acts, ChainRows,
                <<Row([rsrc_id |-> "R1", target_cost |-> "10"]),
                  Row([rsrc_id |-> "R2", target_cost |-> "25"])>>, res)

SpecDuplicates == InitDuplicates /\ [][NextAnalyze]_vars

---------------------------------------------------------------------------
(* Assignment analysis: claims C7, C8 *)

\* the positions of the resource rows with the resource id of assignment a
ResourceRowsOf(a) ==
    {i \in 1..Len(resources) :
        Get(resources[i], "rsrc_id", "") = Get(a, "rsrc_id", "")}

\* the class of a resource row: Labor, Material, and Non-Labor for every
\* other or absent tag
RowClass(r) ==
    CASE Get(r, "rsrc_type", "") = "RT_Labor" -> "Labor"
      [] Get(r, "rsrc_type", "") = "RT_Mat" -> "Material"
      [] OTHER -> "Non-Labor"

\* the class of assignment a when, among the resource rows with its id, the
\* row at position Pick(rows) is the one found
ClassBy(a, Pick(_)) ==
    IF ResourceRowsOf(a) = {} THEN "Non-Labor"
    ELSE RowClass(resources[Pick(ResourceRowsOf(a))])

FirstOf(S) == CHOOSE i \in S : \A j \in S : i <= j
LastOf(S) == CHOOSE i \in S : \A j \in S : j <= i

AssignmentCost(a) == GetFloat(a, "target_cost")

\* the sum of the costs of the assignments whose class is c
ClassCost(c) ==
    SumSeq([i \in 1..Len(assignments) |->
        IF ClassBy(assignments[i], LastOf) = c
        THEN AssignmentCost(assignments[i]) ELSE 0])

\* C7: every assignment adds its cost to exactly one of the three sums and
\* one to exactly one class count, the same class in both: the class of the
\* resource found by its resource id, Non-Labor when no resource has the id
\* or the class tag is unknown or blank. The three sums add up to the sum of
\* all costs and the counts add up to total_assignments.
C7_Bucketing ==
    pc \notin {"counts", "assign"} =>
        /\ \A c \in ClassNames :
              resource_counts[c] =
                 Cardinality({i \in 1..Len(assignments) :
                                 ClassBy(assignments[i], LastOf) = c})
        /\ costs.labor = ClassCost("Labor")
        /\ costs.material = ClassCost("Material")
        /\ costs.nonlabor = ClassCost("Non-Labor")
        /\ costs.labor + costs.material + costs.nonlabor =
              SumSeq([i \in 1..Len(assignments) |-> AssignmentCost(assignments[i])])
        /\ resource_counts["Labor"] + resource_counts["Material"]
              + resource_counts["Non-Labor"] = Len(assignments)

\* the analysis is over for a Material assignment with a cost and an
\* assignment whose resource id matches no resource
C7_Witness ==
    /\ pc = "done"
    /\ Len(assignments) = 2
    /\ ResourceRowsOf(assignments[1]) # {}
    /\ ClassBy(assignments[1], LastOf) = "Material"
    /\ AssignmentCost(assignments[1]) > 0
    /\ ResourceRowsOf(assignments[2]) = {}
    /\ AssignmentCost(assignments[2]) > 0

\* the activity rows with task id id
ActivityRowsOf(id) ==
    {i \in 1..Len(activities) : Get(activities[i], "task_id", "") = id}

\* the code of the first activity row with the id (the id itself when no
\* row has the id or the row has no code)
FirstCode(id) ==
    IF ActivityRowsOf(id) = {} THEN id
    ELSE Get(activities[FirstOf(ActivityRowsOf(id))], "task_code", id)

\* every reported edge carries the codes of the first activity rows
CodesOfFirstRows ==
    \A j \in 1..Len(report.redundant_relationships) :
        LET e == report.redundant_relationships[j]
        IN  /\ e.predecessor_code = FirstCode(e.predecessor_id)
            /\ e.successor_code = FirstCode(e.successor_id)

---------------------------------------------------------------------------
(* main: the loop over the uploaded files *)

\* analyze_redundant_logic as a function of its arguments
analyze_redundant_logic(acts, rels) ==
    LET g == BuildGraph(rels)
        IsRedundant(rel) ==
            /\ HasEndpoints(rel)
            /\ has_alternate_path(g, rel["pred_task_id"], rel["succ_task_id"])
        Entry(rel) == RedundantEntry(acts, rel)
    IN  Report(SeqMap(Entry, SelectSeq(rels, IsRedundant)), Len(rels))

\* the dict returned by analyze_project_data (activity_counts, which no
\* other part of the analysis reads, is left out)
analyze_project_data(d) ==
    [relationship_counts |-> CountRelationshipTypes(d.relationships),
     resource_counts |-> CountAssignments(d.resources, d.assignments),
     total_assignments |-> Len(d.assignments),
     total_resources |-> Len(d.resources),
     costs |-> CostSums(d.resources, d.assignments),
     redundant_logic |-> analyze_redundant_logic(d.activities, d.relationships)]

\* the placeholder parser of .xml files
parse_xml_simplified ==
    [activities |-> <<>>, relationships |-> <<>>, assignments |-> <<>>,
     resources |-> <<>>, filename |-> "XML File"]

\* str.lower() on the extensions of the modelled file names
Lower(ext) == IF ext = "XER" THEN "xer" ELSE ext

\* parse_file_content(content, filename): the dict, or None for a file type
\* that is not supported and for a parse that raised
parse_file_content(lines, name) ==
    IF Lower(name.ext) = "xer" THEN parse_xer_simplified(lines)
    ELSE IF Lower(name.ext) = "xml" THEN parse_xml_simplified
    ELSE None

\* results = analyze_project_data(data); results['filename'] = name
ResultFor(name, d) ==
    LET r == analyze_project_data(d)
    IN  [k \in DOMAIN r \cup {"filename"} |->
            IF k = "filename" THEN name ELSE r[k]]

\* a collection that puts the newest result first
CollectFirst(results, r) == <<r>> \o results

\* all_results.append(results)
Collect(results, r) == Append(results, r)

\* one iteration of the loop, for a file that parse_file_content accepts
ProcessFile ==
    /\ pc = "files"
    /\ file_idx < Len(uploaded_files)
    /\ LET f == uploaded_files[file_idx + 1]
           d == parse_file_content(f.content, f.name)
       IN  /\ d # None
           /\ all_results' = Collect(all_results, ResultFor(f.name, d))
    /\ file_idx' = file_idx + 1
    /\ UNCHANGED <<pc, uploaded_files, errors, dataVars, metricVars,
                   logicVars, parseVars>>

\* one iteration of the loop, for a file that parse_file_content reports
\* and answers with None
RejectFile ==
    /\ pc = "files"
    /\ file_idx < Len(uploaded_files)
    /\ LET f == uploaded_files[file_idx + 1]
       IN  /\ parse_file_content(f.content, f.name) = None
           /\ errors' = Append(errors, f.name)
    /\ file_idx' = file_idx + 1
    /\ UNCHANGED <<pc, uploaded_files, all_results, dataVars, metricVars,
                   logicVars, parseVars>>

\* after the loop: the results are shown, or the lack of any is reported
ShowResults ==
    /\ pc = "files"
    /\ file_idx = Len(uploaded_files)
    /\ errors' = IF all_results = <<>>
                 THEN Append(errors, "No files were successfully processed")
                 ELSE errors
    /\ pc' = "shown"
    /\ UNCHANGED <<uploaded_files, file_idx, all_results, dataVars,
                   metricVars, logicVars, parseVars>>

NextMain == ProcessFile \/ RejectFile \/ ShowResults

\* the contents of the uploaded files: a chain with a redundant edge, a
\* table declaration without a name, and a resource with an assignment
ChainContent ==
    <<<<"%T", "TASKPRED">>, <<"%F", "pred_task_id", "succ_task_id">>,
      <<"%R", "A", "B">>, <<"%R", "B", "C">>, <<"%R", "A", "C">>>>
BrokenContent == <<<<"%T", "TASK">>, <<"%T">>>>
CostContent ==
    <<<<"%T", "RSRC">>, <<"%F", "rsrc_id", "rsrc_type">>,
      <<"%R", "R1", "RT_Labor">>, <<"%T", "TASKRSRC">>,
      <<"%F", "rsrc_id", "target_cost">>, <<"%R", "R1", "100">>>>

UploadedFiles ==
    {[name |-> [stem |-> "p", ext |-> e], content |-> c] :
        e \in {"xer", "XER", "xml", "txt"},
        c \in {ChainContent, BrokenContent, CostContent}}

\* main with at least one uploaded file (with none it returns at once)
InitMain ==
    /\ pc = "files"
    /\ uploaded_files \in SeqsUpTo(UploadedFiles, MaxFiles) \ {<<>>}
    /\ file_idx = 0
    /\ all_results = <<>>
    /\ errors = <<>>
    /\ activities = <<>>
    /\ relationships = <<>>
    /\ assignments = <<>>
    /\ resources = <<>>
    /\ relationship_counts = [name \in RelTypeNames |-> 0]
    /\ resource_counts = [c \in ClassNames |-> 0]
    /\ costs = [labor |-> 0, nonlabor |-> 0, material |-> 0]
    /\ graph = EmptyRow
    /\ idx = 0
    /\ total_checked = 0
    /\ redundant_relationships = <<>>
    /\ search = NoSearch
    /\ report = NoReport
    /\ content = <<>>
    /\ current = NoName
    /\ cols = <<>>
    /\ tables = NoTables
    /\ data = None

SpecMain == InitMain /\ [][NextMain]_vars

---------------------------------------------------------------------------
(* Batch: claim C9 *)

\* the file has a supported extension and, for a .xer file, no line on
\* which the parser raises
FileSucceeds(f) ==
    /\ Lower(f.name.ext) \in {"xer", "xml"}
    /\ Lower(f.name.ext) = "xer" =>
          \A i \in 1..Len(f.content) : ~RaisesIndexError(f.content[i])

\* the result of a file, from its own name and content only
OwnResult(f) == ResultFor(f.name, parse_file_content(f.content, f.name))

\* C9: a file that fails adds no result and does not stop the files after
\* it: the results are those of the files that succeeded, one each, in the
\* order of the input, each computed from its own file only; every file is
\* processed before the results are shown.
C9_BatchIsolation ==
    pc \in {"files", "shown"} =>
        LET processed == SubSeq(uploaded_files, 1, file_idx)
        IN  /\ all_results = SeqMap(OwnResult, SelectSeq(processed, FileSucceeds))
            /\ pc = "shown" => file_idx = Len(uploaded_files)
            /\ \A i \in 1..file_idx :
                  ~FileSucceeds(uploaded_files[i]) =>
                      \E k \in 1..Len(errors) : errors[k] = uploaded_files[i].name

\* three files were processed: the first and the third succeeded with
\* different results, the second failed
C9_Witness ==
    /\ pc = "shown"
    /\ Len(uploaded_files) = 3
    /\ FileSucceeds(uploaded_files[1])
    /\ ~FileSucceeds(uploaded_files[2])
    /\ FileSucceeds(uploaded_files[3])
    /\ Len(all_results) = 2
    /\ all_results[1].redundant_logic # all_results[2].redundant_logic

---------------------------------------------------------------------------
(* Claim C11: the limit of one search *)

DenseFan == 1000    \* duplicate rows of the dense relationship family

\* the row A -> B followed by m copies of the row B -> C
FanRows(m) == <<RelRow("A", "B")>> \o [i \in 1..m |-> RelRow("B", "C")]

\* has_alternate_path is entered for the first row of a file whose
\* relationship table is a fan: the state StartSearch leaves after
\* CountTypes, AnalyzeAssignments and BuildAdjacency have run on the file
InitDense ==
    \E m \in {1, 2, DenseFan} :
        LET rels == FanRows(m)
        IN  /\ pc = "search"
            /\ activities = <<>>
            /\ relationships = rels
            /\ assignments = <<>>
            /\ resources = <<>>
            /\ relationship_counts = CountRelationshipTypes(rels)
            /\ resource_counts = CountAssignments(<<>>, <<>>)
            /\ costs = CostSums(<<>>, <<>>)
            /\ graph = BuildGraph(rels)
            /\ idx = 1
            /\ total_checked = 1
            /\ redundant_relationships = <<>>
            /\ search = SearchStart(rels[1]["pred_task_id"])
            /\ report = NoReport
            /\ content = <<>>
            /\ current = NoName
            /\ cols = <<>>
            /\ tables = NoTables
            /\ data = None
            /\ uploaded_files = <<>>
            /\ file_idx = 0
            /\ all_results = <<>>
            /\ errors = <<>>

\* one call of has_alternate_path: the while loop and the return
NextSearch ==
    \/ SearchIteration
    \/ FinishSearch

SpecDense == InitDense /\ [][NextSearch]_vars

\* C11: one search dequeues at most VisitedCap entries, whatever the graph,
\* duplicate edges included; a search that has dequeued VisitedCap entries
\* has left the while loop without finding an alternate path.
C11_NodeCap ==
    pc = "search" =>
        /\ search.explored <= VisitedCap
        /\ search.explored = VisitedCap =>
              ~search.found /\ ~SearchRunning(search)

===========================================================================
